---- MODULE Spec2Model ----
(***************************************************************************)
(* A model of pydho800.PYDHO800 (src/src/pydho800/pydho800.py): the        *)
(* waveform capture _query_waveform with its preamble decoder, its sample  *)
(* stream decoder and glitch repair and its trace builder, the scale       *)
(* resolver _set_channel_scale, and the stability-gated sampler of         *)
(* get_channel_measurement.                                                *)
(*                                                                         *)
(* Replies of the instrument are sequences of one-character strings, and   *)
(* Python's str.split, int() and float() are computed on them character by *)
(* character.  A floating-point value is kept as an exact decimal          *)
(* [sgn, digs, exp] = sgn * digs * 10^exp with digs free of leading and    *)
(* trailing zeros: two literals denote the same value exactly when their   *)
(* decimals are equal.  Arithmetic is exact (no binary rounding).          *)
(***************************************************************************)
EXTENDS Integers, Sequences, FiniteSets, TLC

(***************************************************************************)
(* Characters and Python string primitives                                 *)
(***************************************************************************)
DigitChars == <<"0", "1", "2", "3", "4", "5", "6", "7", "8", "9">>

IsDigit(c) == \E k \in 1..10 : DigitChars[k] = c

DigitVal(c) == (CHOOSE k \in 1..10 : DigitChars[k] = c) - 1

\* s[k:] of Python, k counted from 0
Drop(s, k) == IF k >= Len(s) THEN <<>> ELSE SubSeq(s, k + 1, Len(s))

\* s[:k] of Python
Take(s, k) == IF k >= Len(s) THEN s ELSE SubSeq(s, 1, k)

\* index (from 1) of the first occurrence of character c in s, 0 when absent
IndexOf(s, c) ==
  IF \E k \in 1..Len(s) : s[k] = c
  THEN CHOOSE k \in 1..Len(s) : s[k] = c /\ \A j \in 1..(k - 1) : s[j] # c
  ELSE 0

\* str.split(sep): always at least one piece, "" splits to [""]
RECURSIVE SplitAt(_, _, _)
SplitAt(s, sep, k) ==
  IF k = 0 THEN <<s>>
  ELSE <<Take(s, k - 1)>> \o SplitAt(Drop(s, k), sep, IndexOf(Drop(s, k), sep))

Split(s, sep) == SplitAt(s, sep, IndexOf(s, sep))

\* str.split(sep, 1): one piece when sep is absent, else the text before and
\* after the first sep
SplitOnceAt(s, k) == IF k = 0 THEN <<s>> ELSE <<Take(s, k - 1), Drop(s, k)>>

SplitOnce(s, sep) == SplitOnceAt(s, IndexOf(s, sep))

\* sep.join(pieces): how a reply is laid out on the wire
RECURSIVE Join(_, _)
Join(pieces, sep) ==
  IF Len(pieces) = 0 THEN <<>>
  ELSE IF Len(pieces) = 1 THEN pieces[1]
  ELSE pieces[1] \o <<sep>> \o Join(Tail(pieces), sep)

\* number of consecutive digits of s from position k (from 1) on
RECURSIVE DigitRun(_, _)
DigitRun(s, k) ==
  IF k > Len(s) \/ ~IsDigit(s[k]) THEN 0 ELSE 1 + DigitRun(s, k + 1)

\* value of a short run of digit characters
RECURSIVE DigitsToInt(_)
DigitsToInt(ds) ==
  IF Len(ds) = 0 THEN 0
  ELSE 10 * DigitsToInt(Take(ds, Len(ds) - 1)) + DigitVal(ds[Len(ds)])

(***************************************************************************)
(* Floating-point values as exact decimals                                 *)
(***************************************************************************)
Zero == [sgn |-> 0, digs |-> <<>>, exp |-> 0]

RECURSIVE StripLead(_)
StripLead(ds) ==
  IF Len(ds) > 0 /\ ds[1] = 0 THEN StripLead(Tail(ds)) ELSE ds

RECURSIVE TrailZeros(_)
TrailZeros(ds) ==
  IF Len(ds) > 0 /\ ds[Len(ds)] = 0
  THEN 1 + TrailZeros(Take(ds, Len(ds) - 1)) ELSE 0

\* the canonical decimal of sign * ds * 10^e, ds a sequence of digits 0..9
MkCanon(neg, lead, tz, e) ==
  IF Len(lead) = tz THEN Zero
  ELSE [sgn |-> IF neg THEN -1 ELSE 1, digs |-> Take(lead, Len(lead) - tz),
        exp |-> e + tz]

MkStripped(neg, lead, e) == MkCanon(neg, lead, TrailZeros(lead), e)

MkFloat(neg, ds, e) == MkStripped(neg, StripLead(ds), e)

NotAFloat == [ok |-> FALSE, val |-> Zero]

\* float(s): [ok, val].  The literal is [sign] digits [. digits] [e|E [sign]
\* digits] with at least one mantissa digit; anything else (a stray
\* character, an empty string, two numbers run together) raises ValueError.
\* The scan runs left to right: sign, integer digits, fraction, exponent.
FloatExpDigits(s, neg, mant, nFrac, eNeg, p3, nExp) ==
  IF nExp = 0 \/ p3 + nExp # Len(s) + 1 THEN NotAFloat
  ELSE [ok |-> TRUE,
        val |-> MkFloat(neg, mant,
                        (IF eNeg THEN 0 - DigitsToInt(SubSeq(s, p3, Len(s)))
                         ELSE DigitsToInt(SubSeq(s, p3, Len(s)))) - nFrac)]

FloatExpSign(s, neg, mant, nFrac, eSigned, p2) ==
  FloatExpDigits(s, neg, mant, nFrac, eSigned /\ s[p2 + 1] = "-",
                 IF eSigned THEN p2 + 2 ELSE p2 + 1,
                 DigitRun(s, IF eSigned THEN p2 + 2 ELSE p2 + 1))

FloatExp(s, neg, mant, nFrac, p2) ==
  IF Len(mant) = 0 THEN NotAFloat
  ELSE IF p2 = Len(s) + 1
  THEN [ok |-> TRUE, val |-> MkFloat(neg, mant, 0 - nFrac)]
  ELSE IF s[p2] \notin {"e", "E"} THEN NotAFloat
  ELSE FloatExpSign(s, neg, mant, nFrac,
                    p2 + 1 <= Len(s) /\ s[p2 + 1] \in {"+", "-"}, p2)

FloatFrac(s, neg, p0, nInt, hasDot, nFrac) ==
  FloatExp(s, neg,
           [k \in 1..(nInt + nFrac) |->
              IF k <= nInt THEN DigitVal(s[p0 + k - 1])
              ELSE DigitVal(s[p0 + k])],
           nFrac,
           IF hasDot THEN p0 + nInt + 1 + nFrac ELSE p0 + nInt)

FloatDot(s, neg, p0, nInt, hasDot) ==
  FloatFrac(s, neg, p0, nInt, hasDot,
            IF hasDot THEN DigitRun(s, p0 + nInt + 1) ELSE 0)

FloatInt(s, neg, p0, nInt) ==
  FloatDot(s, neg, p0, nInt, p0 + nInt <= Len(s) /\ s[p0 + nInt] = ".")

FloatSign(s, signed) ==
  FloatInt(s, signed /\ s[1] = "-", IF signed THEN 2 ELSE 1,
           DigitRun(s, IF signed THEN 2 ELSE 1))

ParseFloat(s) == FloatSign(s, Len(s) > 0 /\ s[1] \in {"+", "-"})

\* int(s): [ok, val].  [sign] digits only: "1.5", "1e3", "" and "x" raise
\* ValueError.
IntDigits(s, signed, p0, n) ==
  IF n = 0 \/ p0 + n # Len(s) + 1 THEN [ok |-> FALSE, val |-> 0]
  ELSE [ok |-> TRUE,
        val |-> IF signed /\ s[1] = "-"
                THEN 0 - DigitsToInt(SubSeq(s, p0, Len(s)))
                ELSE DigitsToInt(SubSeq(s, p0, Len(s)))]

IntSign(s, signed) ==
  IntDigits(s, signed, IF signed THEN 2 ELSE 1,
            DigitRun(s, IF signed THEN 2 ELSE 1))

ParseInt(s) == IntSign(s, Len(s) > 0 /\ s[1] \in {"+", "-"})

\* digits of a natural number, most significant first
RECURSIVE IntToDigits(_)
IntToDigits(n) ==
  IF n < 10 THEN <<n>> ELSE IntToDigits(n \div 10) \o <<n % 10>>

RECURSIVE Pow10(_)
Pow10(k) == IF k <= 0 THEN 1 ELSE 10 * Pow10(k - 1)

Abs(n) == IF n < 0 THEN 0 - n ELSE n

\* the decimal of the integer n times 10^e (n is evaluated once)
FromInt(n, e) ==
  CHOOSE f \in {MkFloat(m < 0, IntToDigits(Abs(m)), e) : m \in {n}} : TRUE

\* the signed mantissa of a decimal (short mantissas only)
RECURSIVE DigsToInt(_)
DigsToInt(ds) ==
  IF Len(ds) = 0 THEN 0
  ELSE 10 * DigsToInt(Take(ds, Len(ds) - 1)) + ds[Len(ds)]

Mant(v) == v.sgn * DigsToInt(v.digs)

\* abs(v)
FAbs(v) == IF v.sgn < 0 THEN [v EXCEPT !.sgn = 1] ELSE v

\* position of the leading digit: |v| lies in [10^(Order-1), 10^Order)
Order(v) == Len(v.digs) + v.exp

\* digit sequences compared as fractions 0.d1d2...
RECURSIVE LexLess(_, _)
LexLess(a, b) ==
  IF Len(b) = 0 THEN FALSE
  ELSE IF Len(a) = 0 THEN TRUE
  ELSE IF a[1] # b[1] THEN a[1] < b[1]
  ELSE LexLess(Tail(a), Tail(b))

\* |a| < |b|
AbsLess(a, b) ==
  IF b.sgn = 0 THEN FALSE
  ELSE IF a.sgn = 0 THEN TRUE
  ELSE IF Order(a) # Order(b) THEN Order(a) < Order(b)
  ELSE LexLess(a.digs, b.digs)

\* a < b
FLess(a, b) ==
  IF a.sgn # b.sgn THEN a.sgn < b.sgn
  ELSE IF a.sgn = 0 THEN FALSE
  ELSE IF a.sgn > 0 THEN AbsLess(a, b)
  ELSE AbsLess(b, a)

\* v * k * 10^de for a small integer k
FScale(v, k, de) == FromInt(Mant(v) * k, v.exp + de)

\* a + b
FAddAt(a, b, e) ==
  FromInt(Mant(a) * Pow10(a.exp - e) + Mant(b) * Pow10(b.exp - e), e)

FAdd(a, b) ==
  IF a.sgn = 0 THEN b
  ELSE IF b.sgn = 0 THEN a
  ELSE FAddAt(a, b, IF a.exp < b.exp THEN a.exp ELSE b.exp)

\* a - b
FSub(a, b) == FAdd(a, [b EXCEPT !.sgn = 0 - b.sgn])

\* a time value num / den: the plain-list x axis has den = 1, numpy's
\* linspace divides by the number of intervals
Rat(num, den) == [num |-> num, den |-> den]

\* a = b for time values
RatEq(a, b) == FScale(a.num, b.den, 0) = FScale(b.num, a.den, 0)

\* a - b for time values
RatSub(a, b) ==
  Rat(FSub(FScale(a.num, b.den, 0), FScale(b.num, a.den, 0)), a.den * b.den)

(***************************************************************************)
(* The instrument's replies: what the model lets it send                   *)
(***************************************************************************)
\* at most this many tokens in a :WAV:DATA? reply of a single capture
MaxTokens == 3

\* at most this many tokens in a :WAV:DATA? reply of a batch capture
MaxBatchTokens == 2

\* at most this many channels in the list of a batch capture
MaxChannels == 2

Mant1 == <<"1", ".", "2", "3", "4", "5", "6", "7", "8", "9", "0", "1", "2", "3">>

Mant2 == <<"1", ".", "9", "8", "7", "6", "5", "4", "3", "2", "1", "0", "9", "8">>

ExpM05 == <<"e", "-", "0", "5">>

ExpM04 == <<"e", "-", "0", "4">>

\* "1.0", "2.0", "3.0": one sample each
TokOne == <<"1", ".", "0">>

TokTwo == <<"2", ".", "0">>

TokThree == <<"3", ".", "0">>

\* "1.234567890123e-051.987654321098e-04": two samples run together
TokGlitch == Mant1 \o ExpM05 \o Mant2 \o ExpM04

\* "1e-052e-05": two samples run together in 10 characters
TokShortGlitch == <<"1">> \o ExpM05 \o <<"2">> \o ExpM05

\* "1.234567890123e-05": one sample written with 18 characters
TokLongExp == Mant1 \o ExpM05

\* "0.12345678901234": one sample written with 16 characters
TokLongPlain ==
  <<"0", ".", "1", "2", "3", "4", "5", "6", "7", "8", "9", "0", "1", "2", "3", "4">>

\* "x": no number
TokJunk == <<"x">>

\* "xxxxxxxxxxxxe-05": 16 characters, no number before the exponent marker
TokLongJunk == [k \in 1..12 |-> "x"] \o ExpM05

Tokens ==
  {TokOne, TokGlitch, TokShortGlitch, TokLongExp, TokLongPlain, TokJunk,
   TokLongJunk}

\* a batch capture decodes each channel with the code of a single capture:
\* its replies differ in their number of samples and in whether they decode
BatchTokens == {TokOne, TokJunk}

Streams(toks, n) == UNION {[1..k -> toks] : k \in 1..n}

\* "1.0,2.0,1.234567890123e-051.987654321098e-04,3.0"
ExampleStream == <<TokOne, TokTwo, TokGlitch, TokThree>>

\* "1.0,": a reply ending in a separator, its last token empty
TrailingStream == <<TokOne, <<>>>>

\* a reply of scpiQuery: a text, or None
Reply(text) == [none |-> FALSE, text |-> text]

NoneReply == [none |-> TRUE, text |-> <<>>]

\* the :WAV:DATA? replies of a single capture
DataReplies ==
  {Reply(Join(st, ",")) :
     st \in Streams(Tokens, MaxTokens) \cup {ExampleStream, TrailingStream}}
  \cup {NoneReply}

\* the :WAV:DATA? replies of a batch capture
BatchDataReplies ==
  {Reply(Join(st, ",")) : st \in Streams(BatchTokens, MaxBatchTokens)}

\* "2,0,1200,1,1e-6,-6e-4,0,1,0,0"
PreExample ==
  << <<"2">>, <<"0">>, <<"1", "2", "0", "0">>, <<"1">>, <<"1", "e", "-", "6">>,
     <<"-", "6", "e", "-", "4">>, <<"0">>, <<"1">>, <<"0">>, <<"0">> >>

\* "2,2,1200,1,2e-6,0,0,1,0,0"
PreRaw ==
  << <<"2">>, <<"2">>, <<"1", "2", "0", "0">>, <<"1">>, <<"2", "e", "-", "6">>,
     <<"0">>, <<"0">>, <<"1">>, <<"0">>, <<"0">> >>

\* fields with field k (from 1) replaced by text
WithField(fields, k, text) == [fields EXCEPT ![k] = text]

PreambleFieldLists ==
  {PreExample, PreRaw}
  \cup {WithField(PreExample, k, <<"x">>) : k \in 1..10}
  \cup {WithField(PreExample, 1, <<"0">>), WithField(PreExample, 1, <<"1">>),
        WithField(PreExample, 2, <<"1">>), WithField(PreExample, 2, <<"3">>),
        WithField(PreExample, 3, <<"1", ".", "5">>),
        WithField(PreExample, 5, <<>>),
        Take(PreExample, 9), PreExample \o << <<"0">> >>, << <<>> >>}

PreambleReplies ==
  {Reply(Join(f, ",")) : f \in PreambleFieldLists} \cup {NoneReply}

\* what the instrument answers to :TRIG:STAT?
TrigStates == {"STOP", "RUN", "AUTO", "WAIT", "TD"}

\* channel indices a caller may pass (the scope has channels 0..3)
ChannelArgs == {-1, 0, 3, 4}

ChannelLists == UNION {[1..k -> ChannelArgs] : k \in 0..MaxChannels}

(***************************************************************************)
(* The program                                                             *)
(***************************************************************************)
VARIABLES
  rawMode,    \* self._rawMode
  useNumpy,   \* self._use_numpy
  op,         \* the operation called: "waveform", "scale", "measurement"
  pc,         \* where the running operation stands; "done" when it has ended
  isList,     \* _query_waveform was called with a list of channels
  channel,    \* the channels the call named, in order
  chans,      \* the channels still to capture
  ch,         \* the channel being captured
  resp,       \* the merged result of a batch capture so far
  trigStat,   \* the last reply to :TRIG:STAT? ("" when none was asked for)
  log,        \* the commands and queries sent to the instrument, in order
  resppre,    \* the :WAV:PRE? reply
  respdata,   \* the text of the :WAV:DATA? reply
  pre,        \* the decoded preamble
  wavedata,   \* the token list being decoded in place
  i,          \* the decode loop's index
  bound,      \* first_num and second_num have been assigned
  swallowed,  \* the decode loop's except clause ended without raising
  meas,       \* the measurement asked for: type, channel, refchannel
  resp1,      \* the sampler's first reading
  resp2,      \* the sampler's second reading
  scale,      \* the scale _set_channel_scale was asked for
  currentProbeRatio,  \* what _get_channel_probe_ratio gave it
  result      \* what the operation returned or raised

vars ==
  <<rawMode, useNumpy, op, pc, isList, channel, chans, ch, resp, trigStat, log, resppre,
    respdata, pre, wavedata, i, bound, swallowed, meas, resp1, resp2, scale,
    currentProbeRatio, result>>

captureVars ==
  <<isList, channel, chans, ch, resp, trigStat, resppre, respdata, pre, wavedata, i,
    bound, swallowed>>

scaleVars == <<scale, currentProbeRatio>>

\* self._nchannels
NChannels == 4

\* the length above which a token is taken for two samples run together
GlitchLen == 14

\* the length of the exponent suffix the repair keeps with the first number
ExpSuffixLen == 3

\* an element of wavedata: a token still to decode, or a decoded float
Str(s) == [isNum |-> FALSE, str |-> s, val |-> Zero]

Num(v) == [isNum |-> TRUE, str |-> <<>>, val |-> v]

NoEntry == Str(<<>>)

\* one exchange with the instrument: scpiCommand or scpiQuery
\* chan and ref are the channel numbers in the text (0 when it has none), val
\* the number it carries
Exch(verb, chan, ref, arg, val) ==
  [verb |-> verb, chan |-> chan, ref |-> ref, arg |-> arg, val |-> val]

Cmd(verb, arg) == Exch(verb, 0, 0, arg, Zero)

NoPre == [format |-> 0, type |-> 0, points |-> 0, xinc |-> Zero, xorigin |-> Zero]

NoResp == [none |-> TRUE, x |-> <<>>, ys |-> <<>>]

NoMeas == [type |-> "", chan |-> 0, hasRef |-> FALSE, ref |-> 0]

\* no probe ratio: _get_channel_probe_ratio returned None
NoRatio == [err |-> "", none |-> TRUE, val |-> Zero]

Pending ==
  [status |-> "pending", err |-> "", tok |-> NoEntry, x |-> <<>>, y |-> <<>>,
   ys |-> <<>>, val |-> Zero]

\* an exception leaving the operation
Raised(kind, tok) == [Pending EXCEPT !.status = "error", !.err = kind, !.tok = tok]

\* the dictionary {'x': xdata, 'y': ydata}
Trace(x, y) == [Pending EXCEPT !.status = "trace", !.x = x, !.y = y]

Init ==
  /\ rawMode \in BOOLEAN
  /\ useNumpy \in BOOLEAN
  /\ op = ""
  /\ pc = "idle"
  /\ isList = FALSE
  /\ channel = <<>>
  /\ chans = <<>>
  /\ ch = 0
  /\ resp = NoResp
  /\ trigStat = ""
  /\ log = <<>>
  /\ resppre = NoneReply
  /\ respdata = <<>>
  /\ pre = NoPre
  /\ wavedata = <<>>
  /\ i = 0
  /\ bound = FALSE
  /\ swallowed = FALSE
  /\ meas = NoMeas
  /\ resp1 = Zero
  /\ resp2 = Zero
  /\ scale = Zero
  /\ currentProbeRatio = NoRatio
  /\ result = Pending

\* every operation starts from the same locals
Fresh ==
  /\ resp' = NoResp
  /\ trigStat' = ""
  /\ log' = <<>>
  /\ resppre' = NoneReply
  /\ respdata' = <<>>
  /\ pre' = NoPre
  /\ wavedata' = <<>>
  /\ i' = 0
  /\ bound' = FALSE
  /\ swallowed' = FALSE
  /\ scale' = Zero
  /\ currentProbeRatio' = NoRatio
  /\ result' = Pending

(***************************************************************************)
(* _query_waveform                                                         *)
(***************************************************************************)
\* _get_run_mode's answer for a :TRIG:STAT? reply; "None" when the function
\* falls off its end
GetRunMode(reply) ==
  IF reply = "STOP" THEN "STOP"
  ELSE IF reply = "RUN" \/ reply = "AUTO" THEN "RUN"
  ELSE IF reply = "WAIT" THEN "RUN"
  ELSE "None"

\* the call: one channel index, or a list of them
QueryWaveform(list, cs) ==
  /\ pc = "idle"
  /\ op' = "waveform"
  /\ pc' = "channel"
  /\ isList' = list
  /\ channel' = cs
  /\ chans' = cs
  /\ ch' = 0
  /\ meas' = NoMeas
  /\ resp1' = Zero
  /\ resp2' = Zero
  /\ Fresh
  /\ UNCHANGED <<rawMode, useNumpy>>

\* the channel check is "channel < 0 or channel >= self._nchannels"
ChannelOutOfRange(c) == c < 0 \/ c >= NChannels

\* a run-mode test that refuses a running instrument only, and lets a reply
\* _get_run_mode does not know pass
RawRefusedWhenRunning(reply) == GetRunMode(reply) = "RUN"

\* the run-mode test of a raw capture
RawRefused(reply) == GetRunMode(reply) # "STOP"

\* a configuration that selects the source before it sets the mode
SourceFirstCommands(c) ==
  <<Exch(":WAV:SOUR", c + 1, 0, "CHAN", Zero),
    Cmd(":WAV:MODE", IF rawMode THEN "RAW" ELSE "NORM"),
    Cmd(":WAV:POIN", IF rawMode THEN "RAW" ELSE "1000 NORM"),
    Cmd(":WAV:FORM", "ASCII")>>

ModeCommands(c) ==
  IF rawMode
  THEN <<Cmd(":WAV:MODE", "RAW"), Cmd(":WAV:POIN", "RAW"),
         Exch(":WAV:SOUR", c + 1, 0, "CHAN", Zero), Cmd(":WAV:FORM", "ASCII")>>
  ELSE <<Cmd(":WAV:MODE", "NORM"), Cmd(":WAV:POIN", "1000 NORM"),
         Exch(":WAV:SOUR", c + 1, 0, "CHAN", Zero), Cmd(":WAV:FORM", "ASCII")>>

\* the range check, the run-mode check of a raw capture and the four
\* configuration commands, for the next channel of the call
Configure ==
  /\ pc = "channel"
  /\ chans # <<>>
  /\ ch' = Head(chans)
  /\ IF ChannelOutOfRange(Head(chans))
     THEN /\ pc' = "done"
          /\ result' = Raised("ValueError", NoEntry)
          /\ UNCHANGED <<log, trigStat>>
     ELSE IF rawMode
     THEN \E st \in TrigStates :
            /\ trigStat' = st
            /\ IF RawRefused(st)
               THEN /\ log' = Append(log, Cmd(":TRIG:STAT?", ""))
                    /\ pc' = "done"
                    /\ result' = Raised("ProtocolViolation", NoEntry)
               ELSE /\ log' = Append(log, Cmd(":TRIG:STAT?", ""))
                              \o ModeCommands(Head(chans))
                    /\ pc' = "query"
                    /\ UNCHANGED result
     ELSE /\ log' = log \o ModeCommands(Head(chans))
          /\ pc' = "query"
          /\ UNCHANGED <<result, trigStat>>
  /\ UNCHANGED <<rawMode, useNumpy, op, isList, channel, chans, resp, resppre, respdata,
                 pre, wavedata, i, bound, swallowed, meas, resp1, resp2, scaleVars>>

\* the preamble decoder: [err, pre].  err is "" or the exception raised:
\* the checks raise CommunicationError_ProtocolViolation, int() and float()
\* raise ValueError.
BadPreamble(e) == [err |-> e, pre |-> NoPre]

PreambleFloats(f, format, type, points) ==
  IF \E k \in 5..10 : ~ParseFloat(f[k]).ok THEN BadPreamble("ValueError")
  ELSE [err |-> "",
        pre |-> [format |-> format, type |-> type, points |-> points,
                 xinc |-> ParseFloat(f[5]).val,
                 xorigin |-> ParseFloat(f[6]).val]]

PreambleCounts(f, format, type, i3, i4) ==
  IF ~i3.ok \/ ~i4.ok THEN BadPreamble("ValueError")
  ELSE PreambleFloats(f, format, type, i3.val)

PreambleType(f, format, i2) ==
  IF ~i2.ok THEN BadPreamble("ValueError")
  ELSE IF i2.val # 0 /\ i2.val # 2 THEN BadPreamble("ProtocolViolation")
  ELSE PreambleCounts(f, format, i2.val, ParseInt(f[3]), ParseInt(f[4]))

PreambleFormat(f, i1) ==
  IF ~i1.ok THEN BadPreamble("ValueError")
  ELSE IF i1.val # 2 THEN BadPreamble("ProtocolViolation")
  ELSE PreambleType(f, i1.val, ParseInt(f[2]))

PreambleFields(f) ==
  IF Len(f) # 10 THEN BadPreamble("ProtocolViolation")
  ELSE PreambleFormat(f, ParseInt(f[1]))

DecodePreamble(text) == PreambleFields(Split(text, ","))

\* wavedata right after the split: every element a token
Entries(toks) == [k \in 1..Len(toks) |-> Str(toks[k])]

\* the two queries, the None test, the preamble decoder and the split of the
\* data reply into tokens
QueryTrace(rp, rd) ==
  /\ pc = "query"
  /\ log' = log \o <<Cmd(":WAV:PRE?", ""), Cmd(":WAV:DATA?", "")>>
  /\ resppre' = rp
  /\ IF rp.none \/ rd.none
     THEN /\ pc' = "done"
          /\ result' = Raised("ProtocolViolation", NoEntry)
          /\ UNCHANGED <<pre, wavedata, respdata>>
     ELSE \E d \in {DecodePreamble(rp.text)} :
            IF d.err # ""
            THEN /\ pc' = "done"
                 /\ result' = Raised(d.err, NoEntry)
                 /\ UNCHANGED <<pre, wavedata, respdata>>
            ELSE /\ pc' = "decode"
                 /\ pre' = d.pre
                 /\ respdata' = rd.text
                 /\ wavedata' = Entries(Split(rd.text, ","))
                 /\ UNCHANGED result
  /\ i' = 0
  /\ UNCHANGED <<rawMode, useNumpy, op, isList, channel, chans, ch, resp, trigStat, bound,
                 swallowed, meas, resp1, resp2, scaleVars>>

\* list.pop(k) and list.insert(k, e), k counted from 0
ListPop(w, k) == Take(w, k) \o Drop(w, k + 1)

ListInsert(w, k, e) == Take(w, k) \o <<e>> \o Drop(w, k)

\* the test that sends a token to the repair
TooLong(s) == Len(s) > GlitchLen

\* the first number the repair cuts from a token split at its first "e"
FirstNum(two_fold) == two_fold[1] \o <<"e">> \o Take(two_fold[2], ExpSuffixLen)

\* the second number: the rest of the token
SecondNum(two_fold) == Drop(two_fold[2], ExpSuffixLen)

\* what the try block of one pass leaves: the list, the index, whether
\* first_num is assigned, and whether it raised
Pass(w, k, b, x) == [w |-> w, i |-> k, bound |-> b, exc |-> x]

\* the repair of the token at index k, split at its first "e": the token is
\* popped before the floats are parsed, and the first float is inserted
\* before the second is parsed
Repair(w, k, first, second) ==
  IF ~first.ok THEN Pass(ListPop(w, k), k, TRUE, TRUE)
  ELSE IF ~second.ok
  THEN Pass(ListInsert(ListPop(w, k), k, Num(first.val)), k, TRUE, TRUE)
  ELSE Pass(ListInsert(ListInsert(ListPop(w, k), k, Num(first.val)),
                       k + 1, Num(second.val)),
            k + 2, TRUE, FALSE)

\* a long token: without an "e" two_fold[1] does not exist (IndexError)
RepairSplit(w, k, b, two_fold) ==
  IF Len(two_fold) < 2 THEN Pass(w, k, b, TRUE)
  ELSE Repair(w, k, ParseFloat(FirstNum(two_fold)),
              ParseFloat(SecondNum(two_fold)))

\* a short token: parsed as it stands and stored in place
Direct(w, k, b, parsed) ==
  IF parsed.ok THEN Pass([w EXCEPT ![k + 1] = Num(parsed.val)], k + 1, b, FALSE)
  ELSE Pass(w, k, b, TRUE)

\* the try block of one pass of the decode loop.  A decoded float at
\* wavedata[i] has no len() (TypeError).
DecodeTry(w, k, b) ==
  IF w[k + 1].isNum THEN Pass(w, k, b, TRUE)
  ELSE IF TooLong(w[k + 1].str)
  THEN RepairSplit(w, k, b, SplitOnce(w[k + 1].str, "e"))
  ELSE Direct(w, k, b, ParseFloat(w[k + 1].str))

\* the except clause raises unless the index is the last one
Tolerated(w, k) == k = Len(w) - 1

\* what the raise statement raises: its message reads wavedata[i], then
\* first_num and second_num
RaiseKind(w, k, b) ==
  IF k >= Len(w) THEN "IndexError"
  ELSE IF ~b THEN "UnboundLocalError"
  ELSE "ProtocolViolation"

\* one pass of the decode loop
DecodeStep ==
  /\ pc = "decode"
  /\ i < Len(wavedata)
  /\ \E t \in {DecodeTry(wavedata, i, bound)} :
       /\ wavedata' = t.w
       /\ i' = t.i
       /\ bound' = t.bound
       /\ IF ~t.exc
          THEN UNCHANGED <<pc, result, swallowed>>
          ELSE IF Tolerated(t.w, t.i)
          THEN /\ swallowed' = TRUE
               /\ UNCHANGED <<pc, result>>
          ELSE /\ pc' = "done"
               /\ result' = Raised(RaiseKind(t.w, t.i, t.bound),
                                   IF t.i < Len(t.w) THEN t.w[t.i + 1]
                                   ELSE NoEntry)
               /\ UNCHANGED swallowed
  /\ UNCHANGED <<rawMode, useNumpy, op, isList, channel, chans, ch, resp, trigStat, log,
                 resppre, respdata, pre, meas, resp1, resp2, scaleVars>>

\* the plain x axis: curx starts at xorigin and xinc is added after each
\* append
RECURSIVE XList(_, _, _)
XList(curx, xinc, n) ==
  IF n = 0 THEN <<>>
  ELSE <<Rat(curx, 1)>> \o XList(FAdd(curx, xinc), xinc, n - 1)

\* numpy.linspace(start, stop, num): num values from start to stop, both
\* included, so neighbours are (stop - start) / (num - 1) apart
Linspace(start, stop, num) ==
  [k \in 1..num |->
     IF num = 1 THEN Rat(start, 1)
     ELSE Rat(FAdd(FScale(start, num - 1, 0),
                   FScale(FSub(stop, start), k - 1, 0)), num - 1)]

\* the x axis of a capture of dpoints samples
XData(xorigin, xinc, dpoints) ==
  IF useNumpy
  THEN Linspace(xorigin, FAdd(xorigin, FScale(xinc, dpoints, 0)), dpoints)
  ELSE XList(xorigin, xinc, dpoints)

\* the y values: the decoded list
YData(w) == [k \in 1..Len(w) |-> w[k].val]

\* a batch keeps the x axis of its first channel and each channel's values
\* under the key y<channel>
Merge(r, c, x, y) ==
  IF r.none THEN [none |-> FALSE, x |-> x, ys |-> (c :> y)]
  ELSE [r EXCEPT !.ys = (c :> y) @@ r.ys]

\* the loop has ended: build the axes and return the trace, to the caller
\* or to the batch loop
BuildTrace ==
  /\ pc = "decode"
  /\ i >= Len(wavedata)
  /\ IF isList
     THEN /\ resp' = Merge(resp, ch,
                           XData(pre.xorigin, pre.xinc, Len(wavedata)),
                           YData(wavedata))
          /\ chans' = Tail(chans)
          /\ pc' = "channel"
          /\ UNCHANGED result
     ELSE /\ result' = Trace(XData(pre.xorigin, pre.xinc, Len(wavedata)),
                             YData(wavedata))
          /\ pc' = "done"
          /\ UNCHANGED <<resp, chans>>
  /\ UNCHANGED <<rawMode, useNumpy, op, isList, channel, ch, trigStat, log, resppre,
                 respdata, pre, wavedata, i, bound, swallowed, meas, resp1,
                 resp2, scaleVars>>

\* the batch loop has run out of channels: return resp, None for an empty
\* list
BatchReturn ==
  /\ pc = "channel"
  /\ chans = <<>>
  /\ pc' = "done"
  /\ result' = IF resp.none THEN [Pending EXCEPT !.status = "None"]
               ELSE [Pending EXCEPT !.status = "batch", !.x = resp.x,
                                    !.ys = resp.ys]
  /\ UNCHANGED <<rawMode, useNumpy, op, isList, channel, chans, ch, resp, trigStat, log,
                 resppre, respdata, pre, wavedata, i, bound, swallowed, meas,
                 resp1, resp2, scaleVars>>

(***************************************************************************)
(* _set_channel_scale                                                      *)
(***************************************************************************)
\* setableScales, ascending: 500e-6 ... 10
SetableScales ==
  <<FromInt(5, -4), FromInt(1, -3), FromInt(2, -3), FromInt(5, -3),
    FromInt(1, -2), FromInt(2, -2), FromInt(5, -2), FromInt(1, -1),
    FromInt(2, -1), FromInt(5, -1), FromInt(1, 0), FromInt(2, 0),
    FromInt(5, 0), FromInt(1, 1)>>

\* the probe ratios _get_channel_probe_ratio accepts: 0.0001 ... 50000
ProbeRatios == {FromInt(m, e) : m \in {1, 2, 5}, e \in -4..4}

\* the scales a caller asks for: 1e-5 ... 700
ScaleArgs == {FromInt(m, e) : m \in {1, 2, 3, 5, 7}, e \in -5..2}

\* what the instrument answers to :CHAN<n>:PROB?
ProbeReplies ==
  {Reply(<<"1">>), Reply(<<"1", "0">>), Reply(<<"2">>), Reply(<<"0", ".", "5">>),
   Reply(<<"1", "0", "0", "0">>), Reply(<<"3">>), Reply(<<"x">>), NoneReply}

\* _get_channel_probe_ratio: [err, none, val].  A reply float() cannot read
\* gives None; a ratio outside the list raises.
GetChannelProbeRatio(reply) ==
  IF reply.none \/ ~ParseFloat(reply.text).ok
  THEN NoRatio
  ELSE IF ParseFloat(reply.text).val \notin ProbeRatios
  THEN [err |-> "ProtocolViolation", none |-> FALSE, val |-> Zero]
  ELSE [err |-> "", none |-> FALSE, val |-> ParseFloat(reply.text).val]

\* scale / currentProbeRatio, the ratio being 1, 2 or 5 times a power of ten
Normalize(sc, ratio) ==
  FScale(sc, 10 \div Mant([ratio EXCEPT !.exp = 0]), 0 - ratio.exp - 1)

\* a selection that takes a step equal to the scale too
StepNotAbove(step, sc) == ~FLess(sc, step)

\* the comparison of the selection loop: float(_scale) < float(scale)
StepBelow(step, sc) == FLess(step, sc)

\* the selection loop: match_scale starts at 0 and takes every step that
\* compares below the scale, in list order
RECURSIVE MatchFrom(_, _, _)
MatchFrom(k, sc, match) ==
  IF k > Len(SetableScales) THEN match
  ELSE MatchFrom(k + 1, sc,
                 IF StepBelow(SetableScales[k], sc) THEN SetableScales[k]
                 ELSE match)

MatchScale(sc) == MatchFrom(1, sc, Zero)

\* "match_scale not in setableScales"
NoMatch(match) == \A k \in 1..Len(SetableScales) : SetableScales[k] # match

\* after the probe ratio is known: normalize, select, send or raise
ResolveScale(c, normalized, match) ==
  IF NoMatch(match)
  THEN [log |-> <<Exch(":CHAN:PROB?", c + 1, 0, "", Zero)>>,
        result |-> Raised("ValueError", NoEntry)]
  ELSE [log |-> <<Exch(":CHAN:PROB?", c + 1, 0, "", Zero),
                  Exch(":CHAN:SCAL", c + 1, 0, "", match)>>,
        result |-> [Pending EXCEPT !.status = "ok", !.val = normalized]]

\* _set_channel_scale(channel, scale) with the instrument answering reply to
\* the probe ratio query: what is sent and what comes back
SetScaleOutcome(c, sc, ratio) ==
  IF c < 0 \/ c > 3
  THEN [log |-> <<>>, result |-> Raised("ValueError", NoEntry)]
  ELSE IF ratio.err # ""
  THEN [log |-> <<Exch(":CHAN:PROB?", c + 1, 0, "", Zero)>>,
        result |-> Raised(ratio.err, NoEntry)]
  ELSE IF ratio.none
  THEN [log |-> <<Exch(":CHAN:PROB?", c + 1, 0, "", Zero)>>,
        result |-> Raised("ProtocolViolation", NoEntry)]
  ELSE ResolveScale(c, Normalize(sc, ratio.val),
                    MatchScale(Normalize(sc, ratio.val)))

SetChannelScale(c, sc, reply) ==
  /\ pc = "idle"
  /\ op' = "scale"
  /\ pc' = "done"
  /\ isList' = FALSE
  /\ channel' = <<>>
  /\ chans' = <<>>
  /\ ch' = c
  /\ meas' = NoMeas
  /\ resp1' = Zero
  /\ resp2' = Zero
  /\ scale' = sc
  /\ currentProbeRatio' = GetChannelProbeRatio(reply)
  /\ resp' = NoResp
  /\ trigStat' = ""
  /\ resppre' = NoneReply
  /\ respdata' = <<>>
  /\ pre' = NoPre
  /\ wavedata' = <<>>
  /\ i' = 0
  /\ bound' = FALSE
  /\ swallowed' = FALSE
  /\ \E o \in {SetScaleOutcome(c, sc, GetChannelProbeRatio(reply))} :
       /\ log' = o.log
       /\ result' = o.result
  /\ UNCHANGED <<rawMode, useNumpy>>

(***************************************************************************)
(* get_channel_measurement                                                 *)
(***************************************************************************)
\* at most this many pairs of readings in one measurement
MaxPairs == 2

\* the keys of typestr the model asks for, and one that is no key
MeasTypes == {"RRPH", "FFPH", "VPP", "XXX"}

KnownTypes ==
  {"VPP", "RRPH", "FFPH", "VMIN", "VMAX", "VRMS", "VAVG", "OVER", "FREQ", "PER"}

PhaseTypes == {"RRPH", "FFPH"}

\* what the instrument answers to :MEAS:ITEM?
Readings ==
  {<<"5", ".", "0", "0">>, <<"5", ".", "0", "2">>, <<"4", ".", "0">>,
   <<"-", "5", ".", "0", "0">>, <<"0">>, <<"9", ".", "9", "E", "3", "7">>,
   <<"9", ".", "0", "E", "3", "7">>, <<"x">>}

\* "out of range scope resonse is 9.9e+37"
Sentinel == FromInt(99, 36)

\* the loop condition of the sampler: true while the pair is not accepted
Unstable(r1, r2) ==
  \/ ~FLess(r1, Sentinel)
  \/ AbsLess(FScale(FAbs(r2), 11, -1), r1)
  \/ AbsLess(r1, FScale(FAbs(r2), 9, -1))

\* the while statement's test on the pair it holds: "sample" runs the body
\* once more, "return" leaves the loop
LoopTest(r1, r2) == IF Unstable(r1, r2) THEN "sample" ELSE "return"

\* (resp1 + resp2) / 2
Average(r1, r2) ==
  CHOOSE avg \in {FScale(sum, 5, -1) : sum \in {FAdd(r1, r2)}} : TRUE

\* the argument checks, in the order the code makes them: "" or the exception
MeasCheck(type, c, hasRef, ref) ==
  IF c < 0 \/ c > 3 THEN "ValueError"
  ELSE IF type \notin KnownTypes THEN "ValueError"
  ELSE IF type \in PhaseTypes /\ (~hasRef \/ ref < 0 \/ ref > 3) THEN "ValueError"
  ELSE ""

\* the call: the checks, then resp1 = 0 and resp2 = 1 for a phase type
GetChannelMeasurement(type, c, hasRef, ref) ==
  /\ pc = "idle"
  /\ op' = "measurement"
  /\ meas' = [type |-> type, chan |-> c, hasRef |-> hasRef, ref |-> ref]
  /\ isList' = FALSE
  /\ channel' = <<>>
  /\ chans' = <<>>
  /\ ch' = 0
  /\ resp1' = Zero
  /\ resp2' = FromInt(1, 0)
  /\ Fresh
  /\ IF MeasCheck(type, c, hasRef, ref) # ""
     THEN /\ pc' = "done"
          /\ result' = Raised(MeasCheck(type, c, hasRef, ref), NoEntry)
     ELSE /\ pc' = IF type \in PhaseTypes THEN LoopTest(Zero, FromInt(1, 0))
                   ELSE "scalar"
          /\ result' = Pending
  /\ UNCHANGED <<rawMode, useNumpy>>

MeasQuery == Exch(":MEAS:ITEM?", meas.chan + 1, meas.ref + 1, meas.type, Zero)

\* one pass of the sampler's loop: two queries, each reply read by float(),
\* then the while statement's test on the new pair
SamplePair(t1, t2) ==
  /\ pc = "sample"
  /\ Len(log) < 2 * MaxPairs
  /\ IF ~ParseFloat(t1).ok
     THEN /\ log' = Append(log, MeasQuery)
          /\ pc' = "done"
          /\ result' = Raised("ValueError", NoEntry)
          /\ UNCHANGED <<resp1, resp2>>
     ELSE IF ~ParseFloat(t2).ok
     THEN /\ log' = log \o <<MeasQuery, MeasQuery>>
          /\ pc' = "done"
          /\ result' = Raised("ValueError", NoEntry)
          /\ resp1' = ParseFloat(t1).val
          /\ UNCHANGED resp2
     ELSE /\ log' = log \o <<MeasQuery, MeasQuery>>
          /\ resp1' = ParseFloat(t1).val
          /\ resp2' = ParseFloat(t2).val
          /\ pc' = LoopTest(ParseFloat(t1).val, ParseFloat(t2).val)
          /\ UNCHANGED result
  /\ UNCHANGED <<rawMode, useNumpy, op, captureVars, meas, scaleVars>>

\* the loop is left: return the average of the pair
SampleReturn ==
  /\ pc = "return"
  /\ pc' = "done"
  /\ result' = [Pending EXCEPT !.status = "value", !.val = Average(resp1, resp2)]
  /\ UNCHANGED <<rawMode, useNumpy, op, captureVars, meas, log, resp1, resp2,
                 scaleVars>>

\* every other type: one query, its reply returned as it is
ScalarQuery(reply) ==
  /\ pc = "scalar"
  /\ log' = Append(log, Exch(":MEAS:ITEM?", meas.chan + 1, 0, meas.type, Zero))
  /\ pc' = "done"
  /\ result' = IF reply.none THEN Raised("ProtocolViolation", NoEntry)
               ELSE [Pending EXCEPT !.status = "reply", !.tok = Str(reply.text)]
  /\ UNCHANGED <<rawMode, useNumpy, op, captureVars, meas, resp1, resp2, scaleVars>>

\* the caller has the result or the exception; the object is ready for its
\* next call
Finish ==
  /\ pc = "done"
  /\ op' = ""
  /\ pc' = "idle"
  /\ isList' = FALSE
  /\ channel' = <<>>
  /\ chans' = <<>>
  /\ ch' = 0
  /\ meas' = NoMeas
  /\ resp1' = Zero
  /\ resp2' = Zero
  /\ Fresh
  /\ UNCHANGED <<rawMode, useNumpy>>

\* the requests and replies are drawn where the operation stands ready for
\* them
WaveformNext ==
  \/ /\ pc = "idle"
     /\ \E c \in ChannelArgs : QueryWaveform(FALSE, <<c>>)
  \/ /\ pc = "idle"
     /\ \E cs \in ChannelLists : QueryWaveform(TRUE, cs)
  \/ Configure
  \/ /\ pc = "query"
     /\ \E rp \in PreambleReplies :
          \E rd \in (IF isList THEN BatchDataReplies ELSE DataReplies) :
            QueryTrace(rp, rd)
  \/ DecodeStep
  \/ BuildTrace
  \/ BatchReturn

ScaleNext ==
  /\ pc = "idle"
  /\ \E c \in ChannelArgs : \E sc \in ScaleArgs : \E rp \in ProbeReplies :
       SetChannelScale(c, sc, rp)

MeasurementNext ==
  \/ /\ pc = "idle"
     /\ \E t \in MeasTypes : \E c \in ChannelArgs : \E r \in ChannelArgs :
          \E h \in BOOLEAN : GetChannelMeasurement(t, c, h, r)
  \/ /\ pc = "sample"
     /\ \E t1 \in Readings : \E t2 \in Readings : SamplePair(t1, t2)
  \/ SampleReturn
  \/ /\ pc = "scalar"
     /\ \E t \in Readings : ScalarQuery(Reply(t))
  \/ ScalarQuery(NoneReply)

Next == WaveformNext \/ ScaleNext \/ MeasurementNext \/ Finish

\* every operation, called in any order
Spec == Init /\ [][Next]_vars

\* the object used for waveform captures only
WaveformSpec == Init /\ [][WaveformNext \/ Finish]_vars

\* the object used for scale requests only
ScaleSpec == Init /\ [][ScaleNext \/ Finish]_vars

\* the object used for measurements only
MeasurementSpec == Init /\ [][MeasurementNext \/ Finish]_vars

\* the interpreter keeps running: once the while statement is left the
\* function returns
FairMeasurementSpec == MeasurementSpec /\ WF_vars(SampleReturn)

(***************************************************************************)
(* The sample stream decoder: what a data reply stands for                 *)
(***************************************************************************)
\* the tokens of the data reply being decoded
ReplyTokens == Split(respdata, ",")

\* a single capture whose decode loop has been entered
DecodeEntered == op = "waveform" /\ ~isList /\ pre # NoPre

\* a token that is one number
IsNumberTok(t) == ParseFloat(t).ok

\* the glitch tokens of the catalogue: two exponential floats AeX and BeY
\* with a 3-character exponent suffix, run together
GlitchTokens == {TokGlitch, TokShortGlitch}

\* AeX and BeY of a glitch token
GlitchParts(t) ==
  IF t = TokGlitch THEN <<Mant1 \o ExpM05, Mant2 \o ExpM04>>
  ELSE << <<"1">> \o ExpM05, <<"2">> \o ExpM05 >>

\* a token that is neither a number nor two numbers run together
NotANumber(t) == ~IsNumberTok(t) /\ t \notin GlitchTokens

\* a token the decoder reads as sent: a number of at most 14 characters,
\* or the two numbers of the long glitch token
WellDecoded(t) == (IsNumberTok(t) /\ Len(t) <= 14) \/ t = TokGlitch

\* the samples a token stands for
SamplesOf(t) ==
  IF t \in GlitchTokens
  THEN <<ParseFloat(GlitchParts(t)[1]).val, ParseFloat(GlitchParts(t)[2]).val>>
  ELSE IF IsNumberTok(t) THEN <<ParseFloat(t).val>>
  ELSE <<>>

RECURSIVE SamplesOfAll(_)
SamplesOfAll(toks) ==
  IF Len(toks) = 0 THEN <<>>
  ELSE SamplesOf(Head(toks)) \o SamplesOfAll(Tail(toks))

\* the capture neither raises nor stays in the loop after its except clause
\* let a token pass, and the trace it returns holds the samples ys
DecodesTo(ys) ==
  /\ result.status # "error"
  /\ swallowed => i >= Len(wavedata)
  /\ pc = "done" => result.status = "trace" /\ result.y = ys

\* the last token is no number and every token before it decodes
FailingLastToken(toks) ==
  /\ NotANumber(toks[Len(toks)])
  /\ \A k \in 1..(Len(toks) - 1) : WellDecoded(toks[k])

\* C1: when the last token of the data reply cannot be parsed as a number
\* and every earlier token decodes, the decode loop terminates (the pass
\* whose except clause lets the token go is the loop's last), the capture
\* does not raise, and the trace it returns holds every sample decoded
\* before the failing token; the failing token may be short or longer than
\* 14 characters.
C1_TrailingTokenDropped ==
  (DecodeEntered /\ FailingLastToken(ReplyTokens))
    => DecodesTo(SamplesOfAll(Take(ReplyTokens, Len(ReplyTokens) - 1)))

\* every token is valid, and one of them is a single number longer than 14
\* characters
LongValidToken(toks) ==
  /\ \A k \in 1..Len(toks) : IsNumberTok(toks[k]) \/ toks[k] = TokGlitch
  /\ \E k \in 1..Len(toks) : IsNumberTok(toks[k]) /\ Len(toks[k]) > 14

\* C2: a token longer than 14 characters that is itself one valid float
\* yields exactly one sample with that value, wherever it stands in the
\* stream: no valid sample is dropped or duplicated and the capture
\* succeeds.
C2_LongTokenOneSample ==
  (DecodeEntered /\ LongValidToken(ReplyTokens))
    => DecodesTo(SamplesOfAll(ReplyTokens))

\* the reply is made of single-number tokens and glitch tokens only
CleanOrGlitch(toks) ==
  \A k \in 1..Len(toks) : IsNumberTok(toks[k]) \/ toks[k] \in GlitchTokens

\* C3: for a data reply made only of clean single-number tokens and glitch
\* tokens, the decoded samples are the tokens in order, each glitch token
\* replaced by its two values AeX then BeY and every other token by its own
\* value.
C3_GlitchReplacedInPlace ==
  (DecodeEntered /\ CleanOrGlitch(ReplyTokens))
    => DecodesTo(SamplesOfAll(ReplyTokens))

\* the example stream "1.0,2.0,1.234567890123e-051.987654321098e-04,3.0" has
\* been decoded to five samples, the third and fourth being the two numbers
\* of the glitch token
C3_ExampleDecoded ==
  /\ DecodeEntered
  /\ pc = "done"
  /\ respdata = Join(ExampleStream, ",")
  /\ result.status = "trace"
  /\ Len(result.y) = 5
  /\ result.y[3] = ParseFloat(Mant1 \o ExpM05).val
  /\ result.y[4] = ParseFloat(Mant2 \o ExpM04).val

\* some token before the last is no number, and every token before it
\* decodes
FailingInnerToken(toks, k) ==
  /\ k < Len(toks)
  /\ NotANumber(toks[k])
  /\ \A j \in 1..(k - 1) : WellDecoded(toks[j])

\* C4: a parse failure on a token that is not the last makes the capture
\* fail with CommunicationError_ProtocolViolation carrying the offending
\* token, and no trace is returned, whether or not an earlier token was
\* repaired and whether the failing token is short or longer than 14
\* characters.  (The message names a token of the repair path through
\* first_num and second_num, so only a short token is looked for in it.)
C4_InnerFailureRaises ==
  \A k \in 1..Len(ReplyTokens) :
    (DecodeEntered /\ pc = "done" /\ FailingInnerToken(ReplyTokens, k))
      => /\ result.status = "error"
         /\ result.err = "ProtocolViolation"
         /\ result.tok = Str(ReplyTokens[k]) \/ TooLong(ReplyTokens[k])

(***************************************************************************)
(* The run-mode check of a raw capture and the preamble decoder            *)
(***************************************************************************)
RunStateQuery == Cmd(":TRIG:STAT?", "")

\* the waveform commands and queries
WaveformVerbs ==
  {":WAV:MODE", ":WAV:POIN", ":WAV:SOUR", ":WAV:FORM", ":WAV:PRE?",
   ":WAV:DATA?"}

\* a raw capture has asked for the run state and the answer was not STOP
RawNotStopped == op = "waveform" /\ rawMode /\ trigStat \notin {"", "STOP"}

\* C5: a raw-mode capture requested while the run state is anything but
\* Stopped (RUN, AUTO, WAIT or a reply _get_run_mode does not know) fails
\* with an error right after the run-state query: no waveform command or
\* query follows it, and for a single capture the run-state query is the
\* only exchange with the instrument.
C5_RawCaptureRefused ==
  RawNotStopped
    => /\ pc = "done"
       /\ result.status = "error"
       /\ log # <<>>
       /\ log[Len(log)] = RunStateQuery
       /\ ~isList =>
            /\ log = <<RunStateQuery>>
            /\ \A k \in 1..Len(log) : log[k].verb \notin WaveformVerbs

\* a single raw capture was refused on a run state _get_run_mode does not
\* know
C5_RefusedOnUnknownState ==
  /\ RawNotStopped
  /\ ~isList
  /\ trigStat = "TD"
  /\ pc = "done"
  /\ result.status = "error"
  /\ log = <<RunStateQuery>>

\* the instrument has answered both waveform queries of a capture
PreambleAnswered ==
  /\ op = "waveform"
  /\ log # <<>>
  /\ log[Len(log)].verb = ":WAV:DATA?"
  /\ ~resppre.none

\* ten fields: the format tag 2, a type tag 0 or 2, two integers, six floats
WellFormedPreamble(f) ==
  /\ Len(f) = 10
  /\ ParseInt(f[1]).ok /\ ParseInt(f[1]).val = 2
  /\ ParseInt(f[2]).ok /\ ParseInt(f[2]).val \in {0, 2}
  /\ ParseInt(f[3]).ok
  /\ ParseInt(f[4]).ok
  /\ \A k \in 5..10 : ParseFloat(f[k]).ok

\* what "2,0,1200,1,1e-6,-6e-4,0,1,0,0" decodes to
ExamplePre ==
  [format |-> 2, type |-> 0, points |-> 1200, xinc |-> FromInt(1, -6),
   xorigin |-> FromInt(-6, -4)]

\* C6: every malformed preamble reply (a field count other than 10, a
\* format tag other than 2, a type tag other than 0 or 2, a field that does
\* not parse as its integer or float) is rejected with
\* CommunicationError_ProtocolViolation and no trace is returned; the
\* well-formed "2,0,1200,1,1e-6,-6e-4,0,1,0,0" is accepted with format 2,
\* type 0, 1200 points, xinc 1e-6 and xorigin -6e-4.
C6_MalformedPreambleRejected ==
  /\ (PreambleAnswered /\ ~WellFormedPreamble(Split(resppre.text, ",")))
       => /\ pc = "done"
          /\ result.status = "error"
          /\ result.err = "ProtocolViolation"
  /\ (PreambleAnswered /\ resppre.text = Join(PreExample, ",") /\ pre # NoPre)
       => pre = ExamplePre

(***************************************************************************)
(* The stability-gated sampler                                             *)
(***************************************************************************)
\* 0.9 * |r2| <= |r1| <= 1.1 * |r2|
WithinTenPercent(r1, r2) ==
  /\ ~AbsLess(r1, FScale(FAbs(r2), 9, -1))
  /\ ~AbsLess(FScale(FAbs(r2), 11, -1), r1)

\* C7: the sampler returns a result only for a pair of readings neither of
\* which is at or above the sentinel 9.9e37 and the first of which is
\* within 0.9 to 1.1 times the second in absolute value, and the result is
\* the average of the pair.
C7_AcceptedPairBelowSentinel ==
  (op = "measurement" /\ pc = "done" /\ result.status = "value")
    => /\ FLess(resp1, Sentinel)
       /\ FLess(resp2, Sentinel)
       /\ WithinTenPercent(resp1, resp2)
       /\ result.val = Average(resp1, resp2)

(***************************************************************************)
(* The scale resolver                                                      *)
(***************************************************************************)
\* a * b for decimals with short mantissas
Times(a, b) == FromInt(Mant(a) * Mant(b), a.exp + b.exp)

\* the step is below the normalized scale: step < scale / ratio, the ratio
\* being positive
BelowNormalized(step, sc, ratio) == FLess(Times(step, ratio), sc)

\* a scale request on a valid channel whose probe ratio was read
ScaleRequest ==
  /\ op = "scale"
  /\ pc = "done"
  /\ ~(ch < 0 \/ ch > 3)
  /\ ~currentProbeRatio.none
  /\ currentProbeRatio.err = ""

\* the :CHAN<n>:SCAL commands sent
ScaleCommands == {k \in 1..Len(log) : log[k].verb = ":CHAN:SCAL"}

\* C8: _set_channel_scale divides the requested scale by the probe ratio it
\* has just queried and sends :CHAN<n>:SCAL with the largest step of the
\* list that is strictly less than the normalized value, whenever there is
\* such a step; a normalized value equal to a step resolves to the next
\* lower step.
C8_LargestStepBelow ==
  ScaleRequest
    => /\ (\E k \in 1..Len(SetableScales) :
             BelowNormalized(SetableScales[k], scale, currentProbeRatio.val))
            => result.status = "ok"
       /\ result.status = "ok"
            => /\ Len(log) = 2
               /\ log[1] = Exch(":CHAN:PROB?", ch + 1, 0, "", Zero)
               /\ log[2].verb = ":CHAN:SCAL"
               /\ log[2].chan = ch + 1
               /\ \E k \in 1..Len(SetableScales) :
                    /\ log[2].val = SetableScales[k]
                    /\ BelowNormalized(SetableScales[k], scale,
                                       currentProbeRatio.val)
                    /\ \A j \in 1..Len(SetableScales) :
                         BelowNormalized(SetableScales[j], scale,
                                         currentProbeRatio.val)
                           => j <= k

\* probe ratio 10 and requested scale 0.03: the command carries 0.002
C8_TenToOneProbe ==
  /\ ScaleRequest
  /\ scale = FromInt(3, -2)
  /\ currentProbeRatio.val = FromInt(1, 1)
  /\ result.status = "ok"
  /\ Len(log) = 2
  /\ log[2].verb = ":CHAN:SCAL"
  /\ log[2].val = FromInt(2, -3)

\* the request is outside [500e-6 * ratio, 10 * ratio], or no step is below
\* its normalized value
OutOfRange(sc, ratio) ==
  \/ FLess(sc, Times(FromInt(5, -4), ratio))
  \/ FLess(Times(FromInt(1, 1), ratio), sc)
  \/ \A k \in 1..Len(SetableScales) : ~BelowNormalized(SetableScales[k], sc, ratio)

\* C9: every scale request outside the supported range for the active probe
\* ratio (below 500e-6 * ratio, above 10 * ratio, or with no step below its
\* normalized value) fails with a range error and no :CHAN<n>:SCAL command
\* is sent.
C9_OutOfRangeRejected ==
  (ScaleRequest /\ OutOfRange(scale, currentProbeRatio.val))
    => /\ result.status = "error"
       /\ result.err = "ValueError"
       /\ ScaleCommands = {}

(***************************************************************************)
(* The trace builder                                                       *)
(***************************************************************************)
\* C10: for every successful single-channel capture, with or without numpy,
\* x and y have the same length, the first time value is the preamble's
\* xorigin, and each following time value exceeds its predecessor by
\* exactly the preamble's xinc.
C10_EvenTimeAxis ==
  (op = "waveform" /\ ~isList /\ pc = "done" /\ result.status = "trace")
    => /\ Len(result.x) = Len(result.y)
       /\ Len(result.x) > 0 => RatEq(result.x[1], Rat(pre.xorigin, 1))
       /\ \A k \in 1..(Len(result.x) - 1) :
            RatEq(RatSub(result.x[k + 1], result.x[k]), Rat(pre.xinc, 1))

(***************************************************************************)
(* Batch captures                                                          *)
(***************************************************************************)
\* the channels a capture has selected with :WAV:SOUR, from the log
SourcedChannels ==
  {log[k].chan - 1 : k \in {j \in 1..Len(log) : log[j].verb = ":WAV:SOUR"}}

\* a multi-channel capture has returned its merged result
BatchReturned ==
  op = "waveform" /\ isList /\ pc = "done" /\ result.status = "batch"

\* C11: after every successful multi-channel capture of a non-empty list
\* the result holds one value sequence per requested channel under that
\* channel's key, and every value sequence has the length of the shared
\* time sequence (so all have the same length), whatever sample counts the
\* instrument returned for the channels.
C11_BatchSequencesAligned ==
  BatchReturned
    => /\ DOMAIN result.ys = SourcedChannels
       /\ \A c \in DOMAIN result.ys : Len(result.ys[c]) = Len(result.x)

\* the waveform exchanges of one channel, in the order claimed
CaptureVerbs ==
  <<":WAV:MODE", ":WAV:POIN", ":WAV:SOUR", ":WAV:FORM", ":WAV:PRE?",
    ":WAV:DATA?">>

\* a raw capture asks for the run state before each channel's exchanges
Preface == IF rawMode THEN 1 ELSE 0

\* the exchanges of one channel
BlockLen == Preface + Len(CaptureVerbs)

\* exchange k of the log belongs to channel number b (from 1) of the request
\* and is exchange p of that channel's sequence, 0 being the run-state query
InPlace(k, b, p) ==
  /\ b <= Len(channel)
  /\ IF p = 0 THEN log[k] = RunStateQuery
     ELSE /\ log[k].verb = CaptureVerbs[p]
          /\ p = 3 => log[k].chan = channel[b] + 1
          /\ p = 4 => log[k].arg = "ASCII"

\* C12: for each channel captured the exchanges are :WAV:MODE, :WAV:POIN,
\* :WAV:SOUR for that channel, :WAV:FORM ASCII, :WAV:PRE? and :WAV:DATA?,
\* in this order with nothing between them (a raw capture asks for the run
\* state before the first of them), and in a multi-channel capture the
\* sequence of one channel is complete before the next channel's begins,
\* the channels taken in the order of the list.
C12_ExchangesInOrder ==
  op = "waveform"
    => \A k \in 1..Len(log) :
         InPlace(k, ((k - 1) \div BlockLen) + 1,
                 ((k - 1) % BlockLen) + 1 - Preface)

\* a batch capture of channels 0 and 3 has sent both channels' sequences
C12_TwoChannelsCaptured ==
  /\ op = "waveform"
  /\ isList
  /\ ~rawMode
  /\ channel = <<0, 3>>
  /\ Len(log) = 2 * BlockLen
  /\ log[3].chan = 1
  /\ log[9].chan = 4
  /\ log[12].verb = ":WAV:DATA?"

\* the call names a channel index outside 0..3
NamesBadChannel ==
  \E k \in 1..Len(channel) : channel[k] < 0 \/ channel[k] > 3

\* C14: a capture request that names a channel index outside 0..3 fails
\* with a range error before any command or query is sent, for a single
\* channel and for a list with the bad index at any position.
C14_BadChannelSendsNothing ==
  (op = "waveform" /\ NamesBadChannel)
    => /\ log = <<>>
       /\ pc = "done" => result.status = "error" /\ result.err = "ValueError"

(***************************************************************************)
(* The sampler's loop                                                      *)
(***************************************************************************)
\* a phase measurement is running or has ended
PhaseMeasurement == op = "measurement" /\ meas.type \in PhaseTypes

\* the acceptance condition: neither reading at or above the sentinel and
\* the first within 0.9 to 1.1 times the second in absolute value
Accepted(r1, r2) ==
  /\ FLess(r1, Sentinel)
  /\ FLess(r2, Sentinel)
  /\ WithinTenPercent(r1, r2)

\* a returned value rests on an accepted pair, after a whole number of
\* pairs and at least one
ReturnedOnAcceptedPair ==
  (PhaseMeasurement /\ result.status = "value")
    => /\ Accepted(resp1, resp2)
       /\ Len(log) >= 2
       /\ Len(log) % 2 = 0

\* queries are sent only while the last pair is not accepted, two at a time
\* unless a reply is unreadable, and the return sends none
PairwiseQueries ==
  (PhaseMeasurement /\ pc \in {"sample", "return"})
    => /\ log' # log => ~Accepted(resp1, resp2)
       /\ (log' # log /\ pc' # "done") => Len(log') = Len(log) + 2
       /\ result'.status = "value" => log' = log /\ Accepted(resp1, resp2)

\* an accepted pair is followed by the return
AcceptedPairReturns ==
  (PhaseMeasurement /\ pc \in {"sample", "return"} /\ Accepted(resp1, resp2))
    ~> (PhaseMeasurement /\ pc = "done" /\ result.status = "value")

\* C13: a phase measurement issues its :MEAS:ITEM? queries in pairs, at
\* least one pair before it returns (the placeholders 0 and 1 are not
\* accepted), sends no query once a pair is accepted and returns right after
\* it, never returns while the last pair is not accepted, however many
\* pairs that takes, and does return once a pair is accepted.
C13_SamplerLoop ==
  /\ []ReturnedOnAcceptedPair
  /\ [][PairwiseQueries]_vars
  /\ AcceptedPairReturns

\* a phase measurement has returned on its second pair
C13_ReturnedOnSecondPair ==
  /\ PhaseMeasurement
  /\ pc = "done"
  /\ result.status = "value"
  /\ Len(log) = 4

====
